---- MODULE Spec2Model ----
(***************************************************************************)
(* A model of fs.memoryfs (src/trunk/fs/memoryfs.py): the in-memory tree   *)
(* of DirEntry objects owned by a MemoryFS, the MemoryFile handles opened  *)
(* on it, and the operations open / write / read / flush / close /         *)
(* makedir / remove / removedir / rename and the four xattr methods.       *)
(*                                                                         *)
(* DirEntry objects live in a heap `nodes` (a sequence, the index being    *)
(* the object's identity); MemoryFile objects live in `handles`.  Every    *)
(* MemoryFS method is @synchronize'd, so one action is one whole call.     *)
(* A call that raises keeps the mutations it made before the raise; the    *)
(* exception's class name is recorded in last.err.                         *)
(***************************************************************************)
EXTENDS Integers, Sequences, FiniteSets, TLC

VARIABLES nodes, handles, last, steps, threads, lock, mem_file_closed

vars == <<nodes, handles, last, steps, threads, lock, mem_file_closed>>

\* ------------------------------------------------------------------ bounds
\* calls made, components of a path given to a call, DirEntry and MemoryFile
\* objects ever made, bytes in a MemoryFile
MaxSteps == 4
MaxIOSteps == 8
MaxXSteps == 4
MaxCCSteps == 3
MaxDepth == 2
MaxNodes == 4
MaxHandles == 2
MaxLen == 2

\* what the calls of the state machine are given
Names == {"a", "b"}
\* open() only looks at which characters the mode string contains
Modes == {{"r"}, {"w"}, {"a"}}
Chunks == {<<"x">>}
\* attribute names of both string types, attribute values, getxattr defaults
Keys == {[kind |-> "str", text |-> "k"], [kind |-> "unicode", text |-> "m"]}
Values == {"v", "u"}
Defaults == {"d"}

PathsTo(n) == UNION {[1..k -> Names] : k \in 0..n}
Paths == PathsTo(MaxDepth)
NonEmptyPaths == Paths \ {<<>>}
IOPaths == PathsTo(1) \ {<<>>}

\* what the claims try on every state reached: one component more, the
\* read-write mode, and two different bytes
ProbePaths == PathsTo(MaxDepth + 1)
ProbeModes == Modes \cup {{"r", "+"}}
ProbeData == {<<>>, <<"y">>, <<"x", "y">>}
ProbeKeys == [kind : {"str", "unicode"}, text : {"k", "m"}]
ProbeDefaults == {"None", "d"}

\* ------------------------------------------------------------- Python bits
\* Python's None, for a node reference
None == 0
\* DirEntry.data = None
NoData == <<"None">>
\* an empty dict
EmptyMap == [k \in {} |-> 0]

Put(m, k, v) == [x \in (DOMAIN m) \cup {k} |-> IF x = k THEN v ELSE m[x]]
Del(m, k) == [x \in (DOMAIN m) \ {k} |-> m[x]]
\* dict.update
Update(m, n) == [x \in (DOMAIN m) \cup (DOMAIN n) |-> IF x \in DOMAIN n THEN n[x] ELSE m[x]]

\* list.remove(x): drops the first occurrence
RECURSIVE ListRemove(_, _)
ListRemove(s, x) ==
    IF s = <<>> THEN <<>>
    ELSE IF Head(s) = x THEN Tail(s)
    ELSE <<Head(s)>> \o ListRemove(Tail(s), x)

InList(s, x) == \E i \in 1..Len(s) : s[i] = x

\* `value or ''`
OrEmpty(value) == IF value = NoData THEN <<>> ELSE value

\* fs.path.pathsplit / iteratepath on a path held as its sequence of components
pathsplit(path) ==
    IF path = <<>> THEN [dir |-> <<>>, name |-> ""]
    ELSE [dir |-> SubSeq(path, 1, Len(path) - 1), name |-> path[Len(path)]]

iteratepath(path) == path

\* ------------------------------------------------------------------ DirEntry
\* contents is None exactly for type "file" (it is set once, in __init__);
\* the model keeps an empty map there and tests the type where the code
\* tests `contents is None`.
DirEntry(type, name) ==
    [type |-> type, name |-> name, contents |-> EmptyMap, open_files |-> <<>>,
     data |-> NoData, locks |-> 0, xattrs |-> EmptyMap]

isdir(e) == e.type = "dir"
isfile(e) == e.type = "file"
\* islocked with the comparison off by one
islocked_off_by_one(e) == e.locks > 1
islocked(e) == e.locks > 0

\* MemoryFS.root
Root == 1

\* ----------------------------------------------------------------- resolver
RECURSIVE Walk(_, _, _)
Walk(ns, current_dir, comps) ==
    IF comps = <<>> THEN current_dir
    ELSE IF isfile(ns[current_dir]) THEN None
    ELSE IF Head(comps) \notin DOMAIN ns[current_dir].contents THEN None
    ELSE Walk(ns, ns[current_dir].contents[Head(comps)], Tail(comps))

_get_dir_entry(ns, dirpath) == Walk(ns, Root, iteratepath(dirpath))

\* the result of a call: the heap and the handles after it, the exception it
\* raised ("ok" when none) and what it returned
Res(ns, hs, err, ret) == [nodes |-> ns, handles |-> hs, err |-> err, ret |-> ret]

\* ------------------------------------------------------------------- makedir
\* lines 272-279: walking the parent chain but its last component, stopping at
\* the first missing one; TRUE when a component met on the way is no directory
RECURSIVE ChainHitsFile(_, _, _)
ChainHitsFile(ns, current_dir, comps) ==
    IF comps = <<>> THEN FALSE
    ELSE IF Head(comps) \notin DOMAIN ns[current_dir].contents THEN FALSE
    ELSE LET dir_item == ns[current_dir].contents[Head(comps)] IN
         IF ~isdir(ns[dir_item]) THEN TRUE
         ELSE ChainHitsFile(ns, dir_item, Tail(comps))

\* MakeChain without line 287: the walk does not step into the directory it made
RECURSIVE MakeChain_no_descent(_, _, _)
MakeChain_no_descent(ns, current_dir, comps) ==
    IF comps = <<>> THEN [nodes |-> ns, dir |-> current_dir]
    ELSE IF Head(comps) \in DOMAIN ns[current_dir].contents
    THEN MakeChain_no_descent(ns, ns[current_dir].contents[Head(comps)], Tail(comps))
    ELSE LET new_dir == Len(ns) + 1
             ns1 == Append([ns EXCEPT ![current_dir].contents = Put(@, Head(comps), new_dir)],
                           DirEntry("dir", Head(comps)))
         IN MakeChain_no_descent(ns1, current_dir, Tail(comps))

\* lines 281-291: walking the whole parent chain, creating what is missing;
\* gives the heap and the last directory reached
RECURSIVE MakeChain(_, _, _)
MakeChain(ns, current_dir, comps) ==
    IF comps = <<>> THEN [nodes |-> ns, dir |-> current_dir]
    ELSE IF Head(comps) \in DOMAIN ns[current_dir].contents
    THEN MakeChain(ns, ns[current_dir].contents[Head(comps)], Tail(comps))
    ELSE LET new_dir == Len(ns) + 1
             ns1 == Append([ns EXCEPT ![current_dir].contents = Put(@, Head(comps), new_dir)],
                           DirEntry("dir", Head(comps)))
         IN MakeChain(ns1, new_dir, Tail(comps))

\* lines 298-307: the leaf, under the parent directory found or made
MakeLeaf(ns, hs, parent_dir, dirname, allow_recreate) ==
    IF isfile(ns[parent_dir]) THEN Res(ns, hs, "AttributeError", <<>>)
    ELSE IF dirname \in DOMAIN ns[parent_dir].contents
    THEN LET dir_item == ns[parent_dir].contents[dirname] IN
         IF isdir(ns[dir_item])
         THEN IF ~allow_recreate THEN Res(ns, hs, "DestinationExistsError", <<>>)
              ELSE Res(ns, hs, "ok", <<>>)
         ELSE Res(ns, hs, "ResourceInvalidError", <<>>)
    ELSE LET new_dir == Len(ns) + 1 IN
         Res(Append([ns EXCEPT ![parent_dir].contents = Put(@, dirname, new_dir)],
                    DirEntry("dir", dirname)),
             hs, "ok", <<>>)

makedir(ns, hs, path, recursive, allow_recreate) ==
    IF path = <<>> THEN Res(ns, hs, "PathError", <<>>)
    ELSE
    LET dirpath == pathsplit(path).dir
        dirname == pathsplit(path).name
        parent_dir == _get_dir_entry(ns, dirpath)
    IN
    IF recursive
    THEN IF parent_dir # None /\ isfile(ns[parent_dir])
         THEN Res(ns, hs, "ResourceInvalidError", <<>>)
         ELSE IF parent_dir # None /\ ~allow_recreate
                 /\ dirname \in DOMAIN ns[parent_dir].contents
         THEN Res(ns, hs, "DestinationExistsError", <<>>)
         ELSE IF ChainHitsFile(ns, Root, pathsplit(iteratepath(dirpath)).dir)
         THEN Res(ns, hs, "ResourceInvalidError", <<>>)
         ELSE LET made == MakeChain(ns, Root, iteratepath(dirpath)) IN
              MakeLeaf(made.nodes, hs, made.dir, dirname, allow_recreate)
    ELSE IF parent_dir = None
         THEN Res(ns, hs, "ParentDirectoryMissingError", <<>>)
         ELSE MakeLeaf(ns, hs, parent_dir, dirname, allow_recreate)

\* ---------------------------------------------------------------- MemoryFile
_check_mode(mode, mode_chars) == mode_chars \subseteq mode

\* mem_file with the append branch (line 63) rewound like the read branch
mem_file_append_rewound(value, mode) ==
    LET v == OrEmpty(value)
        at_start == [buf |-> v, pos |-> 0]
        at_end == [buf |-> v, pos |-> Len(v)]
    IN
    IF "+" \in mode THEN at_start
    ELSE IF _check_mode(mode, {"w", "a"}) THEN at_end
    ELSE IF _check_mode(mode, {"w"}) THEN [buf |-> <<>>, pos |-> 0]
    ELSE IF _check_mode(mode, {"r", "a"}) THEN at_end
    ELSE at_start

\* MemoryFile.__init__: what mem_file holds and where it stands
mem_file(value, mode) ==
    LET v == OrEmpty(value)
        at_start == [buf |-> v, pos |-> 0]
        at_end == [buf |-> v, pos |-> Len(v)]
    IN
    IF "+" \in mode THEN at_start
    ELSE IF _check_mode(mode, {"w", "a"}) THEN at_end
    ELSE IF _check_mode(mode, {"w"}) THEN [buf |-> <<>>, pos |-> 0]
    ELSE IF _check_mode(mode, {"r", "a"}) THEN at_end
    ELSE IF _check_mode(mode, {"r"}) THEN at_start
    ELSE IF _check_mode(mode, {"a"}) THEN at_end
    ELSE at_start

\* StringIO(value), lines 60 and 69, is an input-only object under cStringIO
input_only(mode) ==
    /\ "+" \notin mode
    /\ "w" \notin mode
    /\ "a" \notin mode

\* opened_on is history, not a field of the object: the DirEntry open() locked
MemoryFile(path, value, mode, opened_on) ==
    [closed |-> FALSE, path |-> path, mode |-> mode,
     buf |-> mem_file(value, mode).buf, pos |-> mem_file(value, mode).pos,
     opened_on |-> opened_on]

\* StringIO.write: overwrites from the position on, extending at the end
StringIO_write(buf, pos, data) ==
    SubSeq(buf, 1, pos) \o data \o SubSeq(buf, pos + Len(data) + 1, Len(buf))

\* ------------------------------------------------------- locks and callbacks
\* _lock_dir_entry that finds the entry and does not count the lock
_lock_dir_entry_uncounted(ns, path) ==
    LET dir_entry == _get_dir_entry(ns, path) IN
    [ns EXCEPT ![dir_entry].locks = @]

_lock_dir_entry(ns, path) ==
    LET dir_entry == _get_dir_entry(ns, path) IN
    [ns EXCEPT ![dir_entry].locks = @ + 1]

\* DirEntry.unlock's assert fires after the decrement
_unlock_dir_entry(ns, path) ==
    LET dir_entry == _get_dir_entry(ns, path)
        ns1 == [ns EXCEPT ![dir_entry].locks = @ - 1]
    IN [nodes |-> ns1,
        err |-> IF ns1[dir_entry].locks >= 0 THEN "ok" ELSE "AssertionError"]

\* _on_close_memory_file without line 464: the value is not stored
_on_close_memory_file_no_store(ns, open_file, path, value) ==
    LET dir_entry == _get_dir_entry(ns, path) IN
    IF dir_entry # None
    THEN IF ~InList(ns[dir_entry].open_files, open_file)
         THEN [nodes |-> ns, err |-> "ValueError"]
         ELSE _unlock_dir_entry(
                  [ns EXCEPT ![dir_entry].open_files = ListRemove(@, open_file)], path)
    ELSE [nodes |-> ns, err |-> "ok"]

_on_close_memory_file(ns, open_file, path, value) ==
    LET dir_entry == _get_dir_entry(ns, path) IN
    IF dir_entry # None
    THEN LET ns1 == [ns EXCEPT ![dir_entry].data = value] IN
         IF ~InList(ns1[dir_entry].open_files, open_file)
         THEN [nodes |-> ns1, err |-> "ValueError"]
         ELSE _unlock_dir_entry(
                  [ns1 EXCEPT ![dir_entry].open_files = ListRemove(@, open_file)], path)
    ELSE [nodes |-> ns, err |-> "ok"]

_on_flush_memory_file(ns, path, value) ==
    LET dir_entry == _get_dir_entry(ns, path) IN
    IF dir_entry = None THEN [nodes |-> ns, err |-> "AttributeError"]
    ELSE [nodes |-> [ns EXCEPT ![dir_entry].data = value], err |-> "ok"]

\* modified_time is not modelled: what is left is the failure on a path that
\* no longer resolves
_on_modify_memory_file(ns, path) ==
    LET dir_entry == _get_dir_entry(ns, path) IN
    IF dir_entry = None THEN [nodes |-> ns, err |-> "AttributeError"]
    ELSE [nodes |-> ns, err |-> "ok"]

\* ------------------------------------------------------- MemoryFile methods
\* close without the test of self.closed on line 101
close_unguarded(ns, hs, f) ==
    LET r == _on_close_memory_file(ns, f, hs[f].path, hs[f].buf) IN
    IF r.err # "ok" THEN Res(r.nodes, hs, r.err, <<>>)
    ELSE Res(r.nodes, [hs EXCEPT ![f].closed = TRUE, ![f].buf = <<>>, ![f].pos = 0],
             "ok", <<>>)

\* mem_file.close() frees the buffer
close(ns, hs, f) ==
    IF ~hs[f].closed
    THEN LET r == _on_close_memory_file(ns, f, hs[f].path, hs[f].buf) IN
         IF r.err # "ok" THEN Res(r.nodes, hs, r.err, <<>>)
         ELSE Res(r.nodes, [hs EXCEPT ![f].closed = TRUE, ![f].buf = <<>>, ![f].pos = 0],
                  "ok", <<>>)
    ELSE Res(ns, hs, "ok", <<>>)

\* getvalue() on a closed mem_file raises ValueError
flush(ns, hs, f) ==
    IF hs[f].closed THEN Res(ns, hs, "ValueError", <<>>)
    ELSE LET r == _on_flush_memory_file(ns, hs[f].path, hs[f].buf) IN
         Res(r.nodes, hs, r.err, <<>>)

\* cStringIO says whether the build imported cStringIO (line 20) or StringIO
write(ns, hs, f, data, cStringIO) ==
    LET r == _on_modify_memory_file(ns, hs[f].path) IN
    IF r.err # "ok" THEN Res(ns, hs, r.err, <<>>)
    ELSE IF hs[f].closed THEN Res(ns, hs, "ValueError", <<>>)
    ELSE IF cStringIO /\ input_only(hs[f].mode) THEN Res(ns, hs, "AttributeError", <<>>)
    ELSE Res(ns,
             [hs EXCEPT ![f].buf = StringIO_write(@, hs[f].pos, data),
                        ![f].pos = @ + Len(data)],
             "ok", <<>>)

\* read() with no size: the rest of the buffer
read(ns, hs, f) ==
    IF hs[f].closed THEN Res(ns, hs, "ValueError", <<>>)
    ELSE Res(ns, [hs EXCEPT ![f].pos = Len(hs[f].buf)], "ok",
             SubSeq(hs[f].buf, hs[f].pos + 1, Len(hs[f].buf)))

\* ---------------------------------------------------------------------- open
\* lines 349-352 and 365-369: lock, make the MemoryFile, register it
LockAndRegister(ns, hs, path, file_dir_entry, value, mode) ==
    LET f == Len(hs) + 1
        ns1 == _lock_dir_entry(ns, path)
    IN Res([ns1 EXCEPT ![file_dir_entry].open_files = Append(@, f)],
           Append(hs, MemoryFile(path, value, mode, file_dir_entry)),
           "ok", <<f>>)

open(ns, hs, path, mode) ==
    LET filepath == pathsplit(path).dir
        filename == pathsplit(path).name
        parent_dir_entry == _get_dir_entry(ns, filepath)
    IN
    IF parent_dir_entry = None \/ ~isdir(ns[parent_dir_entry])
    THEN Res(ns, hs, "ResourceNotFoundError", <<>>)
    ELSE IF "r" \in mode \/ "a" \in mode
    THEN IF filename \notin DOMAIN ns[parent_dir_entry].contents
         THEN Res(ns, hs, "ResourceNotFoundError", <<>>)
         ELSE LET file_dir_entry == ns[parent_dir_entry].contents[filename] IN
              IF "a" \in mode /\ islocked(ns[file_dir_entry])
              THEN Res(ns, hs, "ResourceLockedError", <<>>)
              ELSE LockAndRegister(ns, hs, path, file_dir_entry, ns[file_dir_entry].data, mode)
    ELSE IF "w" \in mode
    THEN LET ns1 == IF filename \notin DOMAIN ns[parent_dir_entry].contents
                    THEN Append([ns EXCEPT ![parent_dir_entry].contents =
                                               Put(@, filename, Len(ns) + 1)],
                                DirEntry("file", filename))
                    ELSE ns
             file_dir_entry == ns1[parent_dir_entry].contents[filename]
         IN IF islocked(ns1[file_dir_entry])
            THEN Res(ns1, hs, "ResourceLockedError", <<>>)
            ELSE LockAndRegister(ns1, hs, path, file_dir_entry, NoData, mode)
    ELSE Res(ns, hs, "ok", <<>>)

\* -------------------------------------------------------------------- remove
\* the loop of _orphan_files over its copy of open_files; an exception leaves it
RECURSIVE CloseAll(_, _, _)
CloseAll(ns, hs, files) ==
    IF files = <<>> THEN Res(ns, hs, "ok", <<>>)
    ELSE LET r == close(ns, hs, Head(files)) IN
         IF r.err # "ok" THEN r
         ELSE CloseAll(r.nodes, r.handles, Tail(files))

_orphan_files(ns, hs, file_dir_entry) == CloseAll(ns, hs, ns[file_dir_entry].open_files)

remove(ns, hs, path) ==
    LET dir_entry == _get_dir_entry(ns, path) IN
    IF dir_entry = None THEN Res(ns, hs, "ResourceNotFoundError", <<>>)
    ELSE
    LET o == IF islocked(ns[dir_entry]) THEN _orphan_files(ns, hs, dir_entry)
             ELSE Res(ns, hs, "ok", <<>>)
    IN
    IF o.err # "ok" THEN o
    ELSE IF isdir(o.nodes[dir_entry])
    THEN Res(o.nodes, o.handles, "ResourceInvalidError", <<>>)
    ELSE LET parent_dir == _get_dir_entry(o.nodes, pathsplit(path).dir) IN
         Res([o.nodes EXCEPT ![parent_dir].contents = Del(@, pathsplit(path).name)],
             o.handles, "ok", <<>>)

\* ----------------------------------------------------------------- removedir
\* lines 409-413: the walk up the path, deleting each component from its parent
RECURSIVE RemoveChain(_, _)
RemoveChain(ns, rpathname) ==
    IF rpathname = <<>> THEN ns
    ELSE LET parent_dir == _get_dir_entry(ns, pathsplit(rpathname).dir) IN
         RemoveChain([ns EXCEPT ![parent_dir].contents = Del(@, pathsplit(rpathname).name)],
                     pathsplit(rpathname).dir)

removedir(ns, hs, path, recursive, force) ==
    LET dir_entry == _get_dir_entry(ns, path) IN
    IF dir_entry = None THEN Res(ns, hs, "ResourceNotFoundError", <<>>)
    ELSE IF islocked(ns[dir_entry]) THEN Res(ns, hs, "ResourceLockedError", <<>>)
    ELSE IF ~isdir(ns[dir_entry]) THEN Res(ns, hs, "ResourceInvalidError", <<>>)
    ELSE IF DOMAIN ns[dir_entry].contents # {} /\ ~force
    THEN Res(ns, hs, "DirectoryNotEmptyError", <<>>)
    ELSE IF recursive THEN Res(RemoveChain(ns, path), hs, "ok", <<>>)
    ELSE LET parent_dir == _get_dir_entry(ns, pathsplit(path).dir) IN
         Res([ns EXCEPT ![parent_dir].contents = Del(@, pathsplit(path).name)],
             hs, "ok", <<>>)

\* -------------------------------------------------------------------- rename
\* lines 425-428: flush each open file of src and point it at dst; a flush that
\* raises leaves the loop with the files before it already repointed
RECURSIVE FlushAndRepoint(_, _, _, _)
FlushAndRepoint(ns, hs, files, dst) ==
    IF files = <<>> THEN Res(ns, hs, "ok", <<>>)
    ELSE LET r == flush(ns, hs, Head(files)) IN
         IF r.err # "ok" THEN r
         ELSE FlushAndRepoint(r.nodes, [r.handles EXCEPT ![Head(files)].path = dst],
                              Tail(files), dst)

\* MoveEntry with line 442 turned round: what the destination directory has
\* set already is kept
MoveEntry_dst_wins(ns, hs, src_dir_entry, src_name, dst_dir_entry, dst_name) ==
    IF isfile(ns[dst_dir_entry]) THEN Res(ns, hs, "TypeError", <<>>)
    ELSE
    LET src_xattrs == ns[src_dir_entry].xattrs
        moved == ns[src_dir_entry].contents[src_name]
        ns1 == [ns EXCEPT ![dst_dir_entry].contents = Put(@, dst_name, moved)]
        ns2 == [ns1 EXCEPT ![moved].name = dst_name]
        ns3 == [ns2 EXCEPT ![dst_dir_entry].xattrs = Update(src_xattrs, @)]
    IN Res([ns3 EXCEPT ![src_dir_entry].contents = Del(@, src_name)], hs, "ok", <<>>)

\* lines 440-443, on the heap: item assignment on a file's contents (None) is a
\* TypeError
MoveEntry(ns, hs, src_dir_entry, src_name, dst_dir_entry, dst_name) ==
    IF isfile(ns[dst_dir_entry]) THEN Res(ns, hs, "TypeError", <<>>)
    ELSE
    LET src_xattrs == ns[src_dir_entry].xattrs
        moved == ns[src_dir_entry].contents[src_name]
        ns1 == [ns EXCEPT ![dst_dir_entry].contents = Put(@, dst_name, moved)]
        ns2 == [ns1 EXCEPT ![moved].name = dst_name]
        ns3 == [ns2 EXCEPT ![dst_dir_entry].xattrs = Update(@, src_xattrs)]
    IN Res([ns3 EXCEPT ![src_dir_entry].contents = Del(@, src_name)], hs, "ok", <<>>)

rename(ns, hs, src, dst) ==
    LET src_entry == _get_dir_entry(ns, src) IN
    IF src_entry = None THEN Res(ns, hs, "ResourceNotFoundError", <<>>)
    ELSE
    LET fl == FlushAndRepoint(ns, hs, ns[src_entry].open_files, dst) IN
    IF fl.err # "ok" THEN fl
    ELSE IF _get_dir_entry(fl.nodes, dst) # None
    THEN Res(fl.nodes, fl.handles, "DestinationExistsError", <<>>)
    ELSE
    LET src_dir_entry == _get_dir_entry(fl.nodes, pathsplit(src).dir)
        dst_dir_entry == _get_dir_entry(fl.nodes, pathsplit(dst).dir)
    IN
    IF dst_dir_entry = None
    THEN Res(fl.nodes, fl.handles, "ParentDirectoryMissingError", <<>>)
    ELSE MoveEntry(fl.nodes, fl.handles, src_dir_entry, pathsplit(src).name,
                   dst_dir_entry, pathsplit(dst).name)

\* ------------------------------------------------------- extended attributes
\* An attribute name is a Python 2 string: a str or a unicode, here of ASCII
\* text.  A str and a unicode of the same ASCII text are equal and hash
\* alike, so a dict takes them for one key.
StrKey(text) == [kind |-> "str", text |-> text]
UnicodeKey(text) == [kind |-> "unicode", text |-> text]

unicode(key) == UnicodeKey(key.text)

\* the keys of dict m that equal key: at most one
KeysEqual(m, key) == {k \in DOMAIN m : k.text = key.text}

\* dict[key] = value keeps the key object the dict holds already
DictSet(m, key, value) ==
    IF KeysEqual(m, key) # {} THEN Put(m, CHOOSE k \in KeysEqual(m, key) : TRUE, value)
    ELSE Put(m, key, value)

\* dict.setdefault(key, value) in the place of dict[key] = value
DictSetDefault(m, key, value) ==
    IF KeysEqual(m, key) # {} THEN m ELSE Put(m, key, value)

\* dict.get(key, default)
DictGet(m, key, default) ==
    IF KeysEqual(m, key) # {} THEN m[CHOOSE k \in KeysEqual(m, key) : TRUE]
    ELSE default

_dir_entry(ns, path) ==
    LET dir_entry == _get_dir_entry(ns, path) IN
    [entry |-> dir_entry,
     err |-> IF dir_entry = None THEN "ResourceNotFoundError" ELSE "ok"]

\* setxattr that does not replace the value of a key already set
setxattr_setdefault(ns, hs, path, key, value) ==
    LET d == _dir_entry(ns, path) IN
    IF d.err # "ok" THEN Res(ns, hs, d.err, <<>>)
    ELSE Res([ns EXCEPT ![d.entry].xattrs = DictSetDefault(@, unicode(key), value)],
             hs, "ok", <<>>)

setxattr(ns, hs, path, key, value) ==
    LET d == _dir_entry(ns, path) IN
    IF d.err # "ok" THEN Res(ns, hs, d.err, <<>>)
    ELSE Res([ns EXCEPT ![d.entry].xattrs = DictSet(@, unicode(key), value)],
             hs, "ok", <<>>)

getxattr(ns, hs, path, key, default) ==
    LET d == _dir_entry(ns, path) IN
    IF d.err # "ok" THEN Res(ns, hs, d.err, <<>>)
    ELSE Res(ns, hs, "ok", <<DictGet(ns[d.entry].xattrs, unicode(key), default)>>)

\* the key is looked up as given; a KeyError is passed over
delxattr(ns, hs, path, key) ==
    LET d == _dir_entry(ns, path) IN
    IF d.err # "ok" THEN Res(ns, hs, d.err, <<>>)
    ELSE IF KeysEqual(ns[d.entry].xattrs, key) = {} THEN Res(ns, hs, "ok", <<>>)
    ELSE Res([ns EXCEPT ![d.entry].xattrs =
                            Del(@, CHOOSE k \in KeysEqual(ns[d.entry].xattrs, key) : TRUE)],
             hs, "ok", <<>>)

\* the keys, as a set: a dict's order of keys is not modelled
listxattrs(ns, hs, path) ==
    LET d == _dir_entry(ns, path) IN
    IF d.err # "ok" THEN Res(ns, hs, d.err, <<>>)
    ELSE Res(ns, hs, "ok", <<DOMAIN ns[d.entry].xattrs>>)

\* ------------------------------------------------------------- state machine
\* what the last call was: the method, the MemoryFile it was called on (0 for a
\* MemoryFS method that returned none), the exception it raised ("ok" when
\* none), and whether it changed the heap or a handle
Call(op, f, err) == [op |-> op, f |-> f, err |-> err, changed |-> TRUE]

\* the threads that call into the MemoryFS
Threads == {1, 2}

\* a thread that is in no call: where it stands, the call it is in, the
\* MemoryFile it is closing and the MemoryFiles it has set about closing, the
\* value it read from mem_file, remove's copy of open_files, dir_entry and
\* path, and the exception that ended its call
Idle ==
    [pc |-> "idle", op |-> "none", f |-> 0, tried |-> {}, value |-> <<>>,
     files |-> <<>>, entry |-> None, path |-> <<>>, err |-> "ok"]

\* lock is the thread inside a @synchronize'd method, 0 when there is none;
\* mem_file_closed holds the MemoryFiles whose mem_file.close() a thread has
\* called on its way through close()
Init ==
    /\ nodes = <<DirEntry("dir", "root")>>
    /\ handles = <<>>
    /\ last = Call("init", 0, "ok")
    /\ steps = 0
    /\ threads = [t \in Threads |-> Idle]
    /\ lock = 0
    /\ mem_file_closed = {}

\* A call that changed nothing is recorded and not continued from: whatever
\* follows it follows the state before it just as well.
StepWithin(r, call, max_steps, max_handles) ==
    /\ last.changed
    /\ steps < max_steps
    /\ Len(r.nodes) <= MaxNodes
    /\ Len(r.handles) <= max_handles
    /\ \A f \in 1..Len(r.handles) : Len(r.handles[f].buf) <= MaxLen
    /\ nodes' = r.nodes
    /\ handles' = r.handles
    /\ last' = [call EXCEPT !.changed = (r.nodes # nodes \/ r.handles # handles)]
    /\ steps' = steps + 1
    /\ UNCHANGED <<threads, lock, mem_file_closed>>

Step(r, call) == StepWithin(r, call, MaxSteps, MaxHandles)

MakeDir ==
    \E path \in Paths, recursive \in BOOLEAN, allow_recreate \in BOOLEAN :
        LET r == makedir(nodes, handles, path, recursive, allow_recreate) IN
        Step(r, Call("makedir", 0, r.err))

Open ==
    \E path \in NonEmptyPaths, mode \in Modes :
        LET r == open(nodes, handles, path, mode) IN
        Step(r, Call("open", IF r.ret = <<>> THEN 0 ELSE r.ret[1], r.err))

Write ==
    \E f \in 1..Len(handles), data \in Chunks, cStringIO \in BOOLEAN :
        LET r == write(nodes, handles, f, data, cStringIO) IN
        Step(r, Call("write", f, r.err))

Read ==
    \E f \in 1..Len(handles) :
        LET r == read(nodes, handles, f) IN
        Step(r, Call("read", f, r.err))

Flush ==
    \E f \in 1..Len(handles) :
        LET r == flush(nodes, handles, f) IN
        Step(r, Call("flush", f, r.err))

Close ==
    \E f \in 1..Len(handles) :
        LET r == close(nodes, handles, f) IN
        Step(r, Call("close", f, r.err))

Remove ==
    \E path \in Paths :
        LET r == remove(nodes, handles, path) IN
        Step(r, Call("remove", 0, r.err))

RemoveDir ==
    \E path \in NonEmptyPaths, recursive \in BOOLEAN, force \in BOOLEAN :
        LET r == removedir(nodes, handles, path, recursive, force) IN
        Step(r, Call("removedir", 0, r.err))

Rename ==
    \E src \in NonEmptyPaths, dst \in NonEmptyPaths :
        LET r == rename(nodes, handles, src, dst) IN
        Step(r, Call("rename", 0, r.err))

Next ==
    \/ MakeDir
    \/ Open
    \/ Write
    \/ Read
    \/ Flush
    \/ Close
    \/ Remove
    \/ RemoveDir
    \/ Rename

Spec == Init /\ [][Next]_vars

\* ------------------------------------------------- the files of the root alone
\* The same calls on paths of one component, with no directory made: longer
\* runs, and a third MemoryFile to read back with.
IOStep(r, call) == StepWithin(r, call, MaxIOSteps, MaxHandles + 1)

IOOpen ==
    \E path \in IOPaths, mode \in Modes :
        LET r == open(nodes, handles, path, mode) IN
        IOStep(r, Call("open", IF r.ret = <<>> THEN 0 ELSE r.ret[1], r.err))

IOWrite ==
    \E f \in 1..Len(handles), data \in Chunks, cStringIO \in BOOLEAN :
        LET r == write(nodes, handles, f, data, cStringIO) IN
        IOStep(r, Call("write", f, r.err))

IORead ==
    \E f \in 1..Len(handles) :
        LET r == read(nodes, handles, f) IN
        IOStep(r, Call("read", f, r.err))

IOFlush ==
    \E f \in 1..Len(handles) :
        LET r == flush(nodes, handles, f) IN
        IOStep(r, Call("flush", f, r.err))

IOClose ==
    \E f \in 1..Len(handles) :
        LET r == close(nodes, handles, f) IN
        IOStep(r, Call("close", f, r.err))

IORemove ==
    \E path \in IOPaths :
        LET r == remove(nodes, handles, path) IN
        IOStep(r, Call("remove", 0, r.err))

IORename ==
    \E src \in IOPaths, dst \in IOPaths :
        LET r == rename(nodes, handles, src, dst) IN
        IOStep(r, Call("rename", 0, r.err))

NextIO ==
    \/ IOOpen
    \/ IOWrite
    \/ IORead
    \/ IOFlush
    \/ IOClose
    \/ IORemove
    \/ IORename

SpecIO == Init /\ [][NextIO]_vars

\* --------------------------------------------------- the extended attributes
\* makedir, open for writing and rename, with the four xattr methods.  What
\* is recorded of a getxattr is the key it was given and what it returned, of
\* a listxattrs what it returned, and of a rename that did not raise what it
\* was given and the heap it found.
XStep(r, call) == StepWithin(r, call, MaxXSteps, MaxHandles)

XMakeDir ==
    \E path \in NonEmptyPaths, recursive \in BOOLEAN :
        LET r == makedir(nodes, handles, path, recursive, FALSE) IN
        XStep(r, Call("makedir", 0, r.err))

XOpen ==
    \E path \in NonEmptyPaths :
        LET r == open(nodes, handles, path, {"w"}) IN
        XStep(r, Call("open", IF r.ret = <<>> THEN 0 ELSE r.ret[1], r.err))

XSetXattr ==
    \E path \in Paths, key \in Keys, value \in Values :
        LET r == setxattr(nodes, handles, path, key, value) IN
        XStep(r, Call("setxattr", 0, r.err))

XGetXattr ==
    \E path \in Paths, key \in Keys, default \in Defaults :
        LET r == getxattr(nodes, handles, path, key, default) IN
        XStep(r, [op |-> "getxattr", f |-> 0, err |-> r.err, changed |-> TRUE,
                  key |-> key, ret |-> r.ret])

XDelXattr ==
    \E path \in Paths, key \in Keys :
        LET r == delxattr(nodes, handles, path, key) IN
        XStep(r, Call("delxattr", 0, r.err))

XListXattrs ==
    \E path \in Paths :
        LET r == listxattrs(nodes, handles, path) IN
        XStep(r, [op |-> "listxattrs", f |-> 0, err |-> r.err, changed |-> TRUE,
                  ret |-> r.ret])

XRename ==
    \E src \in NonEmptyPaths, dst \in NonEmptyPaths :
        LET r == rename(nodes, handles, src, dst) IN
        XStep(r, IF r.err # "ok" THEN Call("rename", 0, r.err)
                 ELSE [op |-> "rename", f |-> 0, err |-> r.err, changed |-> TRUE,
                       src |-> src, dst |-> dst, before |-> nodes])

NextX ==
    \/ XMakeDir
    \/ XOpen
    \/ XSetXattr
    \/ XGetXattr
    \/ XDelXattr
    \/ XListXattrs
    \/ XRename

SpecX == Init /\ [][NextX]_vars

\* ------------------------------------------------------- close, step by step
\* MemoryFile.close is not @synchronize'd: only the _on_close_memory_file it
\* calls is.  Files are opened and written by one thread; then each thread
\* makes one call, a close() or a remove(), taken line by line.
CCStep(r, call) ==
    /\ \A t \in Threads : threads[t].pc = "idle"
    /\ StepWithin(r, call, MaxCCSteps, MaxHandles)

CCOpen ==
    \E path \in IOPaths, mode \in Modes :
        LET r == open(nodes, handles, path, mode) IN
        CCStep(r, Call("open", IF r.ret = <<>> THEN 0 ELSE r.ret[1], r.err))

CCWrite ==
    \E f \in 1..Len(handles), data \in Chunks :
        LET r == write(nodes, handles, f, data, FALSE) IN
        CCStep(r, Call("write", f, r.err))

MemFileClosed(f) == handles[f].closed \/ f \in mem_file_closed

\* an exception leaves the call, and the @synchronize'd method it passes
\* through gives up the lock
Raise(t, err) ==
    /\ threads' = [threads EXCEPT ![t].pc = "done", ![t].err = err]
    /\ lock' = IF lock = t THEN 0 ELSE lock

\* line 101, in a close() called by the thread itself
CloseTest(t) ==
    \E f \in 1..Len(handles) :
        /\ threads[t].pc = "idle"
        /\ last.changed
        /\ threads' = [threads EXCEPT ![t] =
               [@ EXCEPT !.op = "close", !.f = f, !.tried = {f},
                         !.pc = IF handles[f].closed THEN "done" ELSE "getvalue"]]
        /\ UNCHANGED <<nodes, handles, last, steps, lock, mem_file_closed>>

\* line 102: getvalue() of a closed mem_file raises ValueError
GetValue(t) ==
    /\ threads[t].pc = "getvalue"
    /\ IF MemFileClosed(threads[t].f) THEN Raise(t, "ValueError")
       ELSE /\ threads' = [threads EXCEPT ![t].value = handles[threads[t].f].buf,
                                          ![t].pc = "on_close"]
            /\ UNCHANGED lock
    /\ UNCHANGED <<nodes, handles, last, steps, mem_file_closed>>

\* line 103: the callback, under the lock (which the thread may hold already)
OnClose(t) ==
    /\ threads[t].pc = "on_close"
    /\ lock \in {0, t}
    /\ LET r == _on_close_memory_file(nodes, threads[t].f, handles[threads[t].f].path,
                                      threads[t].value)
       IN /\ nodes' = r.nodes
          /\ IF r.err # "ok" THEN Raise(t, r.err)
             ELSE /\ threads' = [threads EXCEPT ![t].pc = "mem_close"]
                  /\ UNCHANGED lock
    /\ UNCHANGED <<handles, last, steps, mem_file_closed>>

\* line 104
MemClose(t) ==
    /\ threads[t].pc = "mem_close"
    /\ mem_file_closed' = mem_file_closed \cup {threads[t].f}
    /\ handles' = [handles EXCEPT ![threads[t].f].buf = <<>>, ![threads[t].f].pos = 0]
    /\ threads' = [threads EXCEPT ![t].pc = "set_closed"]
    /\ UNCHANGED <<nodes, last, steps, lock>>

\* line 105, and the return: to the caller, or to the loop of _orphan_files
SetClosed(t) ==
    /\ threads[t].pc = "set_closed"
    /\ handles' = [handles EXCEPT ![threads[t].f].closed = TRUE]
    /\ threads' = [threads EXCEPT ![t].pc = IF threads[t].op = "remove" THEN "orphan"
                                            ELSE "done"]
    /\ UNCHANGED <<nodes, last, steps, lock, mem_file_closed>>

\* lines 374-382: remove takes the lock, finds the entry and copies its
\* open_files when it is locked
RemoveEnter(t) ==
    \E path \in IOPaths :
        /\ threads[t].pc = "idle"
        /\ last.changed
        /\ lock = 0
        /\ LET dir_entry == _get_dir_entry(nodes, path) IN
           IF dir_entry = None
           THEN /\ threads' = [threads EXCEPT ![t] =
                       [@ EXCEPT !.op = "remove", !.path = path, !.pc = "done",
                                 !.err = "ResourceNotFoundError"]]
                /\ UNCHANGED lock
           ELSE /\ threads' = [threads EXCEPT ![t] =
                       [@ EXCEPT !.op = "remove", !.path = path, !.entry = dir_entry,
                                 !.files = IF islocked(nodes[dir_entry])
                                           THEN nodes[dir_entry].open_files ELSE <<>>,
                                 !.pc = "orphan"]]
                /\ lock' = t
        /\ UNCHANGED <<nodes, handles, last, steps, mem_file_closed>>

\* lines 312-313 and 101: the next file of the copy, and close()'s test of it
OrphanNext(t) ==
    /\ threads[t].pc = "orphan"
    /\ threads[t].files # <<>>
    /\ LET f == Head(threads[t].files) IN
       threads' = [threads EXCEPT ![t] =
           [@ EXCEPT !.files = Tail(@), !.f = f, !.tried = @ \cup {f},
                     !.pc = IF handles[f].closed THEN "orphan" ELSE "getvalue"]]
    /\ UNCHANGED <<nodes, handles, last, steps, lock, mem_file_closed>>

\* lines 385-392, the loop done
Unlink(t) ==
    /\ threads[t].pc = "orphan"
    /\ threads[t].files = <<>>
    /\ IF isdir(nodes[threads[t].entry])
       THEN /\ Raise(t, "ResourceInvalidError")
            /\ UNCHANGED nodes
       ELSE LET parent_dir == _get_dir_entry(nodes, pathsplit(threads[t].path).dir) IN
            /\ nodes' = [nodes EXCEPT ![parent_dir].contents =
                                          Del(@, pathsplit(threads[t].path).name)]
            /\ threads' = [threads EXCEPT ![t].pc = "done"]
            /\ lock' = 0
    /\ UNCHANGED <<handles, last, steps, mem_file_closed>>

NextCC ==
    \/ CCOpen
    \/ CCWrite
    \/ \E t \in Threads : CloseTest(t)
    \/ \E t \in Threads : GetValue(t)
    \/ \E t \in Threads : OnClose(t)
    \/ \E t \in Threads : MemClose(t)
    \/ \E t \in Threads : SetClosed(t)
    \/ \E t \in Threads : RemoveEnter(t)
    \/ \E t \in Threads : OrphanNext(t)
    \/ \E t \in Threads : Unlink(t)

SpecCC == Init /\ [][NextCC]_vars

\* ==================================================================== claims
Resolve(path) == _get_dir_entry(nodes, path)

\* the DirEntry objects some path reaches from the root
InTree(n) == \E path \in PathsTo(MaxNodes) : Resolve(path) = n

Files == {n \in 1..Len(nodes) : InTree(n) /\ isfile(nodes[n])}

\* the MemoryFiles opened on n and not closed since
OpenOn(n) == {f \in 1..Len(handles) : handles[f].opened_on = n /\ ~handles[f].closed}

ProbeFilePaths == ProbePaths \ {<<>>}

\* open(path, mode), write(data), close(), then open(path, "r") and read(): the
\* outcome of the last call, or of the first call of the four after the open
\* that raised
ReadBack(opened, path, data, cStringIO) ==
    LET w == write(opened.nodes, opened.handles, opened.ret[1], data, cStringIO)
        c == close(w.nodes, w.handles, opened.ret[1])
        o == open(c.nodes, c.handles, path, {"r"})
    IN IF w.err # "ok" THEN w
       ELSE IF c.err # "ok" THEN c
       ELSE IF o.err # "ok" THEN o
       ELSE read(o.nodes, o.handles, o.ret[1])

\* C1: the lock count of every file of the tree is the number of MemoryFiles
\* opened on it and not closed yet.
C1_LocksCountOpenHandles ==
    \A n \in Files : nodes[n].locks = Cardinality(OpenOn(n))

\* the directory that holds path exists, and path is absent or not locked
Writable(path) ==
    /\ Resolve(pathsplit(path).dir) # None
    /\ isdir(nodes[Resolve(pathsplit(path).dir)])
    /\ Resolve(path) = None \/ nodes[Resolve(path)].locks = 0

\* C2: from every state, for every path whose parent directory exists and
\* every byte string b: open(path, "w") succeeds unless the path is locked,
\* and when it succeeds, writing b, closing, opening the path for reading and
\* reading to the end gives b, whatever the file held before.
C2_WriteReadRoundTrip ==
    \A path \in ProbeFilePaths :
        LET opened == open(nodes, handles, path, {"w"}) IN
        /\ Writable(path) => opened.err = "ok"
        /\ opened.err = "ok" =>
               \A b \in ProbeData, cStringIO \in BOOLEAN :
                   LET back == ReadBack(opened, path, b, cStringIO) IN
                   back.err = "ok" /\ back.ret = b

\* C2 has happened: a MemoryFile opened for reading has just read to its end
\* the bytes that a closed write-mode MemoryFile of the same path wrote.
C2_Witness ==
    /\ last.op = "read"
    /\ last.err = "ok"
    /\ handles[last.f].mode = {"r"}
    /\ handles[last.f].buf = <<"x">>
    /\ handles[last.f].pos = 1
    /\ \E g \in 1..Len(handles) :
          /\ handles[g].closed
          /\ handles[g].mode = {"w"}
          /\ handles[g].path = handles[last.f].path
          /\ handles[g].opened_on = handles[last.f].opened_on

\* C3: from every state, for every file holding b1 and every byte string b2:
\* open(path, "a") succeeds when no MemoryFile holds the file, and when it
\* succeeds, writing b2, closing, opening the path for reading and reading to
\* the end gives b1 followed by b2.
C3_AppendKeepsContent ==
    \A path \in ProbeFilePaths :
        (Resolve(path) # None /\ isfile(nodes[Resolve(path)])) =>
            LET b1 == OrEmpty(nodes[Resolve(path)].data)
                opened == open(nodes, handles, path, {"a"})
            IN /\ nodes[Resolve(path)].locks = 0 => opened.err = "ok"
               /\ opened.err = "ok" =>
                      \A b2 \in ProbeData, cStringIO \in BOOLEAN :
                          LET back == ReadBack(opened, path, b2, cStringIO) IN
                          back.err = "ok" /\ back.ret = b1 \o b2

\* C3 has happened: three MemoryFiles on one file, the first wrote b1 and was
\* closed, the second appended b2 and was closed, the third has just read
\* b1 b2 to the end.
C3_Witness ==
    /\ last.op = "read"
    /\ last.err = "ok"
    /\ Len(handles) = 3
    /\ last.f = 3
    /\ handles[1].mode = {"w"} /\ handles[1].closed
    /\ handles[2].mode = {"a"} /\ handles[2].closed
    /\ handles[3].mode = {"r"} /\ ~handles[3].closed
    /\ handles[1].opened_on = handles[3].opened_on
    /\ handles[2].opened_on = handles[3].opened_on
    /\ handles[3].buf = <<"x", "x">>
    /\ handles[3].pos = 2
    /\ steps = 8

\* C4: remove(path) of a file succeeds whatever its lock count: the MemoryFiles
\* open on it are closed, its lock count is 0, the path resolves no more.
C4_RemoveForceCloses ==
    \A path \in ProbeFilePaths :
        (Resolve(path) # None /\ isfile(nodes[Resolve(path)])) =>
            LET n == Resolve(path)
                r == remove(nodes, handles, path)
            IN /\ r.err = "ok"
               /\ \A f \in OpenOn(n) : r.handles[f].closed
               /\ r.nodes[n].locks = 0
               /\ _get_dir_entry(r.nodes, path) = None

\* the paths of the children of the directory at path
ChildPaths(path) == {Append(path, name) : name \in DOMAIN nodes[Resolve(path)].contents}

HasChildren(path) ==
    /\ Resolve(path) # None
    /\ isdir(nodes[Resolve(path)])
    /\ DOMAIN nodes[Resolve(path)].contents # {}

\* C5: removedir of a directory with a child raises DirectoryNotEmptyError
\* and changes nothing when force is false; when force is true it succeeds,
\* and neither the directory nor a child of it resolves afterwards.
C5_RemovedirNonEmpty ==
    \A path \in ProbeFilePaths, recursive \in BOOLEAN :
        HasChildren(path) =>
            LET kept == removedir(nodes, handles, path, recursive, FALSE)
                forced == removedir(nodes, handles, path, recursive, TRUE)
            IN /\ kept.err = "DirectoryNotEmptyError"
               /\ kept.nodes = nodes
               /\ kept.handles = handles
               /\ forced.err = "ok"
               /\ _get_dir_entry(forced.nodes, path) = None
               /\ \A child \in ChildPaths(path) : _get_dir_entry(forced.nodes, child) = None

\* C6: rename(src, dst) with src resolving, dst not resolving and dst's parent
\* resolving: afterwards src resolves no more, dst resolves to the node src
\* resolved to, and its data, children and xattrs are as before.
C6_RenameMovesNode ==
    \A src \in ProbeFilePaths, dst \in ProbeFilePaths :
        (/\ Resolve(src) # None
         /\ Resolve(dst) = None
         /\ Resolve(pathsplit(dst).dir) # None) =>
            LET n == Resolve(src)
                r == rename(nodes, handles, src, dst)
            IN /\ r.err = "ok"
               /\ _get_dir_entry(r.nodes, src) = None
               /\ _get_dir_entry(r.nodes, dst) = n
               /\ r.nodes[n].data = nodes[n].data
               /\ r.nodes[n].contents = nodes[n].contents
               /\ r.nodes[n].xattrs = nodes[n].xattrs

Prefixes(path) == {SubSeq(path, 1, k) : k \in 1..Len(path)}

\* every prefix of path resolves to a directory of heap ns
AllDirs(ns, path) ==
    \A prefix \in Prefixes(path) :
        /\ _get_dir_entry(ns, prefix) # None
        /\ isdir(ns[_get_dir_entry(ns, prefix)])

\* no prefix of path resolves to a file
NoFileAlong(path) ==
    \A prefix \in Prefixes(path) :
        Resolve(prefix) = None \/ isdir(nodes[Resolve(prefix)])

\* C7: where no file lies along x, makedir(x, recursive=True) of an x that
\* does not resolve succeeds and leaves x and every prefix of x a directory;
\* makedir of the x that now exists changes nothing, succeeding with
\* allow_recreate and raising DestinationExistsError without.
C7_MakedirRecursive ==
    \A x \in ProbeFilePaths :
        NoFileAlong(x) =>
            \A allow_recreate \in BOOLEAN :
                LET first == makedir(nodes, handles, x, TRUE, allow_recreate)
                    made == IF Resolve(x) = None THEN first.nodes ELSE nodes
                IN /\ Resolve(x) = None => first.err = "ok"
                   /\ AllDirs(made, x)
                   /\ \A recursive \in BOOLEAN :
                          LET again == makedir(made, handles, x, recursive, TRUE)
                              refused == makedir(made, handles, x, recursive, FALSE)
                          IN /\ again.err = "ok"
                             /\ again.nodes = made
                             /\ refused.err = "DestinationExistsError"
                             /\ refused.nodes = made

\* C7 has happened: one call made the directory a/b (or b/a, ...) together
\* with its missing parent, and the call after it, a makedir of an existing
\* directory without allow_recreate, was refused.
C7_Witness ==
    /\ steps = 2
    /\ Len(nodes) = 3
    /\ \E x \in Paths : Len(x) = 2 /\ AllDirs(nodes, x)
    /\ last.op = "makedir"
    /\ last.err = "DestinationExistsError"

\* C8: open of a path that resolves to a directory raises in every mode,
\* makes no MemoryFile and leaves the directory as it was.
C8_OpenRefusesDirectory ==
    \A path \in ProbeFilePaths, mode \in ProbeModes :
        (Resolve(path) # None /\ isdir(nodes[Resolve(path)])) =>
            LET r == open(nodes, handles, path, mode) IN
            /\ r.err # "ok"
            /\ r.handles = handles
            /\ r.nodes[Resolve(path)] = nodes[Resolve(path)]

\* C9: on an existing file with a lock count above 0, open in a write or an
\* append mode raises ResourceLockedError and changes nothing; on an existing
\* file with any lock count, open in read mode succeeds, adds one to the lock
\* count and registers the new MemoryFile.
C9_LockAdmission ==
    \A path \in ProbeFilePaths :
        (Resolve(path) # None /\ isfile(nodes[Resolve(path)])) =>
            LET n == Resolve(path)
                rd == open(nodes, handles, path, {"r"})
            IN /\ nodes[n].locks > 0 =>
                      \A mode \in {{"w"}, {"a"}, {"w", "+"}, {"a", "+"}} :
                          LET r == open(nodes, handles, path, mode) IN
                          /\ r.err = "ResourceLockedError"
                          /\ r.nodes = nodes
                          /\ r.handles = handles
               /\ rd.err = "ok"
               /\ rd.nodes[n].locks = nodes[n].locks + 1
               /\ rd.nodes[n].open_files = Append(nodes[n].open_files, Len(handles) + 1)
               /\ rd.nodes[n].data = nodes[n].data
               /\ Len(rd.handles) = Len(handles) + 1

\* C9 has happened: a file is held by two MemoryFiles, the second admitted
\* for reading while the first held it, and an open of it has just been
\* refused with ResourceLockedError.
C9_Witness ==
    /\ last.op = "open"
    /\ last.err = "ResourceLockedError"
    /\ \E n \in Files :
          /\ nodes[n].locks = 2
          /\ Cardinality(OpenOn(n)) = 2
          /\ \E f \in OpenOn(n) : handles[f].mode = {"r"}

\* a proper prefix of path resolves to a file
FileAbove(path) ==
    \E prefix \in Prefixes(pathsplit(path).dir) :
        Resolve(prefix) # None /\ isfile(nodes[Resolve(prefix)])

\* C10: makedir raises ResourceInvalidError and makes nothing when the parent
\* of the leaf is a file (not recursive), when a component above the leaf is a
\* file (recursive), or when the leaf exists as a file.
C10_MakedirFileInTheWay ==
    \A x \in ProbeFilePaths, recursive \in BOOLEAN, allow_recreate \in BOOLEAN :
        LET parent == Resolve(pathsplit(x).dir)
            blocked ==
                \/ ~recursive /\ parent # None /\ isfile(nodes[parent])
                \/ recursive /\ FileAbove(x)
                \/ Resolve(x) # None /\ isfile(nodes[Resolve(x)])
            r == makedir(nodes, handles, x, recursive, allow_recreate)
        IN blocked => (r.err = "ResourceInvalidError" /\ r.nodes = nodes)

\* the DirEntry objects at or beneath node n in heap ns
Beneath(ns, n) == {Walk(ns, n, suffix) : suffix \in PathsTo(MaxNodes)} \ {None}

\* MemoryFile f, open in heap ns, is valid: a write and a flush do not raise,
\* the flush stores the buffer in the DirEntry it was opened on, and so does
\* close, which also takes f out of open_files and one off the lock count
HandleValid(ns, hs, f) ==
    LET n == hs[f].opened_on
        w == write(ns, hs, f, <<"y">>, FALSE)
        fl == flush(w.nodes, w.handles, f)
        c == close(ns, hs, f)
    IN /\ w.err = "ok"
       /\ fl.err = "ok"
       /\ fl.nodes[n].data = w.handles[f].buf
       /\ c.err = "ok"
       /\ c.handles[f].closed
       /\ c.nodes[n].data = hs[f].buf
       /\ c.nodes[n].locks = ns[n].locks - 1
       /\ ~InList(c.nodes[n].open_files, f)

\* C11: after a rename(src, dst) that succeeds, every MemoryFile that was
\* open on the renamed file, or on a file beneath the renamed directory, is
\* still valid.
C11_HandlesSurviveRename ==
    \A src \in ProbeFilePaths :
        Resolve(src) # None =>
            LET held == {f \in 1..Len(handles) :
                            /\ ~handles[f].closed
                            /\ isfile(nodes[handles[f].opened_on])
                            /\ handles[f].opened_on \in Beneath(nodes, Resolve(src))}
            IN held # {} =>
                   \A dst \in ProbeFilePaths :
                       LET r == rename(nodes, handles, src, dst) IN
                       r.err = "ok" => \A f \in held : HandleValid(r.nodes, r.handles, f)

\* C12: close() of a MemoryFile that is closed raises nothing and changes
\* nothing, whatever was opened, written or closed since its first close; and
\* closing an open MemoryFile twice leaves what closing it once leaves.
C12_CloseIdempotent ==
    \A f \in 1..Len(handles) :
        LET once == close(nodes, handles, f)
            twice == close(once.nodes, once.handles, f)
        IN /\ handles[f].closed =>
                  /\ once.err = "ok"
                  /\ once.nodes = nodes
                  /\ once.handles = handles
           /\ (~handles[f].closed /\ once.err = "ok") =>
                  /\ twice.err = "ok"
                  /\ twice.nodes = once.nodes
                  /\ twice.handles = once.handles

\* C12 has happened: the first MemoryFile of a file was closed, a second one
\* opened on the same file wrote "x" and was closed, and the first has just
\* been closed again: the file holds "x", unlocked, with no open file.
C12_Witness ==
    /\ last.op = "close"
    /\ last.err = "ok"
    /\ ~last.changed
    /\ last.f = 1
    /\ Len(handles) >= 2
    /\ handles[1].closed /\ handles[1].mode = {"w"}
    /\ handles[2].closed /\ handles[2].mode = {"w"}
    /\ handles[2].opened_on = handles[1].opened_on
    /\ handles[2].path = handles[1].path
    /\ nodes[handles[1].opened_on].data = <<"x">>
    /\ nodes[handles[1].opened_on].locks = 0
    /\ nodes[handles[1].opened_on].open_files = <<>>

\* no key of the xattrs of the DirEntry at path equals key
Unset(path, key) == KeysEqual(nodes[Resolve(path)].xattrs, key) = {}

\* on a path that resolves: setxattr then getxattr, under either string type
\* of the same name, gives the value set and touches no other key and no
\* other DirEntry; getxattr of a key not set gives the default; delxattr of a
\* key not set changes nothing; delxattr of a key that is set unsets it
XattrsOnEntry(path, key) ==
    LET n == Resolve(path)
        deleted == delxattr(nodes, handles, path, key)
    IN /\ \A value \in Values :
              LET s == setxattr(nodes, handles, path, key, value) IN
              /\ s.err = "ok"
              /\ s.handles = handles
              /\ [s.nodes EXCEPT ![n].xattrs = nodes[n].xattrs] = nodes
              /\ \A other \in ProbeKeys, default \in ProbeDefaults :
                     LET g == getxattr(s.nodes, handles, path, other, default) IN
                     /\ g.err = "ok"
                     /\ g.ret = IF other.text = key.text THEN <<value>>
                                ELSE getxattr(nodes, handles, path, other, default).ret
       /\ \A default \in ProbeDefaults :
              LET g == getxattr(nodes, handles, path, key, default)
                  gd == getxattr(deleted.nodes, handles, path, key, default)
              IN /\ g.err = "ok"
                 /\ g.nodes = nodes
                 /\ Unset(path, key) => g.ret = <<default>>
                 /\ gd.err = "ok" /\ gd.ret = <<default>>
       /\ deleted.err = "ok"
       /\ deleted.handles = handles
       /\ Unset(path, key) => deleted.nodes = nodes
       /\ listxattrs(nodes, handles, path).err = "ok"

\* on a path that does not resolve the four methods raise ResourceNotFoundError
\* and change nothing
XattrsNotFound(path, key) ==
    /\ \A value \in Values :
           LET s == setxattr(nodes, handles, path, key, value) IN
           s.err = "ResourceNotFoundError" /\ s.nodes = nodes /\ s.handles = handles
    /\ \A default \in ProbeDefaults :
           getxattr(nodes, handles, path, key, default).err = "ResourceNotFoundError"
    /\ delxattr(nodes, handles, path, key).err = "ResourceNotFoundError"
    /\ delxattr(nodes, handles, path, key).nodes = nodes
    /\ listxattrs(nodes, handles, path).err = "ResourceNotFoundError"

\* the pairs (DirEntry, key) whose attribute differs between two heaps
XattrsChanged(before, after) ==
    {<<n, key>> \in (1..Len(before)) \X [kind : {"unicode"}, text : {"k", "m"}] :
        DictGet(before[n].xattrs, key, "unset") # DictGet(after[n].xattrs, key, "unset")}

HeldAs(n) ==
    {<<d, name>> \in (1..Len(nodes)) \X Names :
        /\ isdir(nodes[d])
        /\ name \in DOMAIN nodes[d].contents
        /\ nodes[d].contents[name] = n}

\* C14: no directory is in its own subtree, every DirEntry of the tree but
\* the root is held by one directory under one name and no DirEntry by more,
\* nothing holds the root, and the root is a directory.
C14_TreeShape ==
    /\ isdir(nodes[Root])
    /\ HeldAs(Root) = {}
    /\ \A n \in 1..Len(nodes) :
           /\ isdir(nodes[n]) =>
                  \A suffix \in PathsTo(MaxNodes) \ {<<>>} : Walk(nodes, n, suffix) # n
           /\ Cardinality(HeldAs(n)) <= 1
           /\ (InTree(n) /\ n # Root) => Cardinality(HeldAs(n)) = 1

IsPrefix(p, q) == Len(p) <= Len(q) /\ SubSeq(q, 1, Len(p)) = p

\* the paths that are neither on the chain from the root to path nor under it
OffChain(path) == {q \in ProbePaths : ~IsPrefix(q, path) /\ ~IsPrefix(path, q)}

\* C15: a removedir(path, recursive=True) that succeeds removes path, and
\* every entry off the chain from the root to path resolves afterwards as it
\* did before, to the same DirEntry with the same content.
C15_RemovedirRecursiveFrame ==
    \A path \in ProbeFilePaths, force \in BOOLEAN :
        LET r == removedir(nodes, handles, path, TRUE, force) IN
        r.err = "ok" =>
            /\ _get_dir_entry(r.nodes, path) = None
            /\ \A q \in OffChain(path) :
                   Resolve(q) # None =>
                       /\ _get_dir_entry(r.nodes, q) = Resolve(q)
                       /\ r.nodes[Resolve(q)] = nodes[Resolve(q)]

\* C16: no lock count is below 0 and no call has raised DirEntry.unlock's
\* AssertionError; nor does the close of any MemoryFile or the remove of any
\* path, tried from the state, raise it or leave a lock count below 0.
C16_LocksNeverNegative ==
    /\ last.err # "AssertionError"
    /\ \A n \in 1..Len(nodes) : nodes[n].locks >= 0
    /\ \A f \in 1..Len(handles) :
           LET c == close(nodes, handles, f) IN
           /\ c.err # "AssertionError"
           /\ \A n \in 1..Len(c.nodes) : c.nodes[n].locks >= 0
    /\ \A path \in ProbeFilePaths :
           LET r == remove(nodes, handles, path) IN
           /\ r.err # "AssertionError"
           /\ \A n \in 1..Len(r.nodes) : r.nodes[n].locks >= 0

\* C16 has happened: a remove has just closed by force the two MemoryFiles
\* open on a file, unlocking it twice, down to 0.
C16_Witness ==
    /\ last.op = "remove"
    /\ last.err = "ok"
    /\ Len(handles) = 2
    /\ handles[1].closed /\ handles[2].closed
    /\ handles[1].opened_on = handles[2].opened_on
    /\ isfile(nodes[handles[1].opened_on])
    /\ ~InTree(handles[1].opened_on)
    /\ nodes[handles[1].opened_on].locks = 0
    /\ nodes[handles[1].opened_on].open_files = <<>>
    /\ steps = 3

\* the value of attribute key in heap ns on DirEntry n, "unset" when not set
Attr(ns, n, key) == DictGet(ns[n].xattrs, key, "unset")

\* C17: after a rename(src, dst) that succeeds, every attribute of the
\* directory that holds dst has the value the directory that held src had for
\* it, if it had one, and else its own value of before; the attributes of
\* every other DirEntry are as before.
C17_RenameMergesXattrs ==
    \A src \in ProbeFilePaths :
        Resolve(src) # None =>
            \A dst \in ProbeFilePaths :
                LET r == rename(nodes, handles, src, dst)
                    src_parent == Resolve(pathsplit(src).dir)
                    dst_parent == Resolve(pathsplit(dst).dir)
                IN r.err = "ok" =>
                       /\ \A key \in ProbeKeys :
                              Attr(r.nodes, dst_parent, key) =
                                  IF Attr(nodes, src_parent, key) # "unset"
                                  THEN Attr(nodes, src_parent, key)
                                  ELSE Attr(nodes, dst_parent, key)
                       /\ \A n \in 1..Len(nodes) :
                              n # dst_parent => r.nodes[n].xattrs = nodes[n].xattrs

\* C17 has happened: a rename has just moved an entry from one directory to
\* another that had a different value for an attribute, and the directory it
\* moved to now has the value of the directory it came from.
C17_Witness ==
    /\ last.op = "rename"
    /\ last.err = "ok"
    /\ LET src_parent == _get_dir_entry(last.before, pathsplit(last.src).dir)
           dst_parent == _get_dir_entry(last.before, pathsplit(last.dst).dir)
       IN /\ src_parent # dst_parent
          /\ \E key \in ProbeKeys :
                 /\ Attr(last.before, src_parent, key) # "unset"
                 /\ Attr(last.before, dst_parent, key) # "unset"
                 /\ Attr(last.before, dst_parent, key) # Attr(last.before, src_parent, key)
                 /\ Attr(nodes, dst_parent, key) = Attr(last.before, src_parent, key)
                 /\ Attr(nodes, src_parent, key) = Attr(last.before, src_parent, key)

\* C18: a rename that raises ResourceNotFoundError, DestinationExistsError or
\* ParentDirectoryMissingError leaves the contents, data and xattrs of every
\* DirEntry and the path of every open MemoryFile as they were.
C18_FailedRenameChangesNothing ==
    \A src \in ProbeFilePaths, dst \in ProbeFilePaths :
        LET r == rename(nodes, handles, src, dst) IN
        r.err \in {"ResourceNotFoundError", "DestinationExistsError",
                   "ParentDirectoryMissingError"} =>
            /\ Len(r.nodes) = Len(nodes)
            /\ \A n \in 1..Len(nodes) :
                   /\ r.nodes[n].contents = nodes[n].contents
                   /\ r.nodes[n].data = nodes[n].data
                   /\ r.nodes[n].xattrs = nodes[n].xattrs
            /\ \A f \in 1..Len(handles) :
                   ~handles[f].closed => r.handles[f].path = handles[f].path

\* C19: on a file that no MemoryFile holds: open it for writing, open it for
\* reading, write b through the first MemoryFile and close it, then close
\* the second, which was never written to; the file holds b.
C19_ReadCloseKeepsData ==
    \A path \in ProbeFilePaths :
        (/\ Resolve(path) # None
         /\ isfile(nodes[Resolve(path)])
         /\ nodes[Resolve(path)].locks = 0) =>
            LET w == open(nodes, handles, path, {"w"})
                r == open(w.nodes, w.handles, path, {"r"})
                n == Resolve(path)
            IN \A b \in ProbeData \ {<<>>} :
                   LET written == write(r.nodes, r.handles, w.ret[1], b, FALSE)
                       committed == close(written.nodes, written.handles, w.ret[1])
                       done == close(committed.nodes, committed.handles, r.ret[1])
                   IN /\ w.err = "ok"
                      /\ r.err = "ok"
                      /\ written.err = "ok"
                      /\ committed.err = "ok"
                      /\ committed.nodes[n].data = b
                      /\ done.err = "ok"
                      /\ done.nodes[n].data = b

\* C20: the path of every MemoryFile that was opened on a file and is not
\* closed resolves to a file that has the MemoryFile in its open_files.
C20_NoDanglingHandles ==
    \A f \in 1..Len(handles) :
        (~handles[f].closed /\ isfile(nodes[handles[f].opened_on])) =>
            /\ Resolve(handles[f].path) # None
            /\ isfile(nodes[Resolve(handles[f].path)])
            /\ InList(nodes[Resolve(handles[f].path)].open_files, f)

\* C21: when both threads have returned from calls that set about closing the
\* same MemoryFile (two close() calls, or a close() and a remove() that found
\* it in open_files), neither call has raised, the MemoryFile is closed and
\* out of its file's open_files, and the file's lock count is the number of
\* MemoryFiles still open on it.
C21_CloseOnceUnderConcurrency ==
    \A f \in 1..Len(handles) :
        (/\ \A t \in Threads : threads[t].pc = "done" /\ f \in threads[t].tried
         /\ \E t \in Threads : threads[t].op = "close") =>
            LET n == handles[f].opened_on IN
            /\ \A t \in Threads : threads[t].err = "ok"
            /\ handles[f].closed
            /\ ~InList(nodes[n].open_files, f)
            /\ nodes[n].locks = Cardinality(OpenOn(n))

====
